---- MODULE Spec2Model ----
(***************************************************************************)
(* Model of backend/secure_executor.py (run_generated_code) and of the     *)
(* startup/shutdown generator of backend/main.py (lifespan).               *)
(*                                                                         *)
(* run_generated_code is modelled one source line (or one executed         *)
(* statement of the generated code) per step, per invocation, on top of    *)
(* the process-wide state it touches: sys.stdout, the console behind the   *)
(* original stream, matplotlib's pending-figure registry and the file      *)
(* data/plot.png.                                                          *)
(***************************************************************************)
EXTENDS Integers, Sequences, FiniteSets, TLC

VARIABLES
    pc,         \* per invocation: the line the invocation is at
    code,       \* per invocation: the code argument, a sequence of statements
    ip,         \* per invocation: index of the next statement exec() runs
    ctx,        \* per invocation: local_vars, a mapping from names to values
    ctx0,       \* per invocation: local_vars as the caller passed it
    buf,        \* per invocation: the text held by output_buffer
    old,        \* per invocation: the stream redirect_stdout saved on entry
    exc,        \* per invocation: the exception in flight, if any
    ret,        \* per invocation: the returned pair
    wrote,      \* per invocation: whether this call wrote data/plot.png
    sys_stdout, \* process-wide: the stream sys.stdout refers to
    console,    \* process-wide: what reached the original stream
    figs,       \* process-wide: number of figures in plt's registry
    plotFile,   \* whether data/plot.png exists
    lpc,        \* lifespan: position in the generator
    attempts,   \* lifespan: the attempts counter
    delay,      \* lifespan: the delay, in milliseconds
    tries,      \* lifespan: number of engine.begin() blocks entered
    ready,      \* lifespan: whether create_all went through
    disposed    \* lifespan: number of engine.dispose() calls

execVars == <<pc, code, ip, ctx, ctx0, buf, old, exc, ret, wrote,
              sys_stdout, console, figs, plotFile>>
lifeVars == <<lpc, attempts, delay, tries, ready, disposed>>
vars == <<pc, code, ip, ctx, ctx0, buf, old, exc, ret, wrote,
          sys_stdout, console, figs, plotFile,
          lpc, attempts, delay, tries, ready, disposed>>

(***************************************************************************)
(* Bounds of the model.                                                    *)
(***************************************************************************)
NThreads == 2
MaxCodeLen == 2
MaxConcLen == 1
MaxFigs == 2
MaxBuf == 2

Threads == 1..NThreads

(***************************************************************************)
(* Values.  Every Python value the model handles is a record: a kind and,  *)
(* for text read back from a StringIO, the items written to it in order.   *)
(* An item is <<what, who>>: what was written and by which invocation.     *)
(***************************************************************************)
Val(k) == [kind |-> k, text |-> <<>>]
Text(items) == [kind |-> "str", text |-> items]

NoDataFrame == Val("No DataFrame provided")
MissingDf == Val("Missing df")
ErrorOccurred == Val("Error occurred during code execution.")
NoSummary == Val("No summary provided.")
None == Val("None")

DataFrame == Val("DataFrame")
NotAFrame == Val("object without .columns")
PreResult == Val("result bound by the caller")
PreSummary == Val("summary bound by the caller")
CodeResult == Val("result bound by the code")
CodeSummary == Val("summary bound by the code")

\* streams sys.stdout can refer to
Orig == <<"orig", 0>>
Buf(t) == <<"buf", t>>
Stale == <<"stale", 0>>

\* exceptions: the class that decides which except clause matches, and str(e)
NoExc == [cls |-> "none", msg |-> Val("")]
SyntaxErr == [cls |-> "Exception", msg |-> Val("invalid syntax")]
RuntimeErr == [cls |-> "Exception", msg |-> Val("bad")]
SystemExitExc == [cls |-> "BaseException", msg |-> Val("exit")]
SaveErr == [cls |-> "Exception", msg |-> Val("cannot write data/plot.png")]
AttrErr == [cls |-> "Exception", msg |-> Val("no attribute 'columns'")]

(***************************************************************************)
(* Inputs: code strings and contexts.                                      *)
(***************************************************************************)
Ops == {"print", "result", "summary", "figure", "raise", "exit", "syntax"}
CodesUpTo(n) == UNION {[1..k -> Ops] : k \in 0..n}

EmptyCtx == [k \in {} |-> None]
DfPart(d) == IF d = "none" THEN EmptyCtx
             ELSE IF d = "frame" THEN "df" :> DataFrame ELSE "df" :> NotAFrame
ResPart(b) == IF b THEN "result" :> PreResult ELSE EmptyCtx
SumPart(b) == IF b THEN "summary" :> PreSummary ELSE EmptyCtx
Contexts == {DfPart(d) @@ ResPart(r) @@ SumPart(s) :
                d \in {"none", "frame", "bad"}, r \in BOOLEAN, s \in BOOLEAN}
ConcContexts == {DfPart(d) : d \in {"none", "frame", "bad"}}

\* dict.get(key, default)
Get(c, key, default) == IF key \in DOMAIN c THEN c[key] ELSE default
\* c[key] = v
Bind(c, key, v) == (key :> v) @@ c

\* exec() compiles the whole string before it runs any of it
Compiles(c) == \A i \in 1..Len(c) : c[i] # "syntax"

Init ==
    /\ pc = [t \in Threads |-> "idle"]
    /\ code = [t \in Threads |-> <<>>]
    /\ ip = [t \in Threads |-> 1]
    /\ ctx = [t \in Threads |-> EmptyCtx]
    /\ ctx0 = [t \in Threads |-> EmptyCtx]
    /\ buf = [t \in Threads |-> <<>>]
    /\ old = [t \in Threads |-> Orig]
    /\ exc = [t \in Threads |-> NoExc]
    /\ ret = [t \in Threads |-> <<None, None>>]
    /\ wrote = [t \in Threads |-> FALSE]
    /\ sys_stdout = Orig
    /\ console = {}
    /\ figs = 0
    /\ plotFile = FALSE
    /\ lpc = "start"
    /\ attempts = 0
    /\ delay = 0
    /\ tries = 0
    /\ ready = FALSE
    /\ disposed = 0


(***************************************************************************)
(* run_generated_code                                                      *)
(***************************************************************************)
\* file.write on the stream s: a StringIO keeps the text, the original
\* stream shows it on the console, a buffer nobody holds any more loses it
CanWrite(s) == \A u \in Threads : s = Buf(u) => Len(buf[u]) < MaxBuf
Write(s, item) ==
    /\ console' = IF s = Orig THEN console \cup {item} ELSE console
    /\ buf' = [u \in Threads |->
                 IF s = Buf(u) THEN Append(buf[u], item) ELSE buf[u]]

\* the guard of line 11 left out
HasDfAlways(x) == TRUE

\* 'df' not in local_vars, negated
HasDf(x) == "df" \in DOMAIN x

\* local_vars['df'].columns.tolist() evaluates
HasColumns(x) == Get(x, "df", None) = DataFrame

\* lines 6-12: bind the arguments, create output_buffer, test for 'df'
Call(t, c, x) ==
    /\ pc[t] = "idle"
    /\ code' = [code EXCEPT ![t] = c]
    /\ ip' = [ip EXCEPT ![t] = 1]
    /\ ctx' = [ctx EXCEPT ![t] = x]
    /\ ctx0' = [ctx0 EXCEPT ![t] = x]
    /\ buf' = [buf EXCEPT ![t] = <<>>]
    /\ IF HasDf(x)
          THEN /\ pc' = [pc EXCEPT ![t] = "notice"]
               /\ UNCHANGED ret
          ELSE /\ pc' = [pc EXCEPT ![t] = "returned"]
               /\ ret' = [ret EXCEPT ![t] = <<NoDataFrame, MissingDf>>]
    /\ UNCHANGED <<old, exc, wrote, sys_stdout, console, figs, plotFile>>
    /\ UNCHANGED lifeVars

\* line 14, the print goes to whatever sys.stdout is now
NoticeColumns(t) ==
    /\ pc[t] = "notice"
    /\ HasColumns(ctx[t])
    /\ CanWrite(sys_stdout)
    /\ Write(sys_stdout, <<"cols", t>>)
    /\ pc' = [pc EXCEPT ![t] = "enter"]
    /\ UNCHANGED <<code, ip, ctx, ctx0, old, exc, ret, wrote, sys_stdout,
                   figs, plotFile>>
    /\ UNCHANGED lifeVars

\* line 14, outside the try: the attribute lookup raises to the caller
NoticeRaises(t) ==
    /\ pc[t] = "notice"
    /\ ~HasColumns(ctx[t])
    /\ exc' = [exc EXCEPT ![t] = AttrErr]
    /\ pc' = [pc EXCEPT ![t] = "raised"]
    /\ UNCHANGED <<code, ip, ctx, ctx0, buf, old, ret, wrote, sys_stdout,
                   console, figs, plotFile>>
    /\ UNCHANGED lifeVars

\* line 17, redirect_stdout.__enter__: save sys.stdout, install the buffer
Enter(t) ==
    /\ pc[t] = "enter"
    /\ old' = [old EXCEPT ![t] = sys_stdout]
    /\ sys_stdout' = Buf(t)
    /\ pc' = [pc EXCEPT ![t] = "exec"]
    /\ UNCHANGED <<code, ip, ctx, ctx0, buf, exc, ret, wrote, console,
                   figs, plotFile>>
    /\ UNCHANGED lifeVars

\* line 18: the statement exec() is about to run
AtOp(t, op) ==
    /\ pc[t] = "exec"
    /\ Compiles(code[t])
    /\ ip[t] <= Len(code[t])
    /\ code[t][ip[t]] = op

\* line 18: compile() rejects the string, nothing of it runs
ExecSyntaxError(t) ==
    /\ pc[t] = "exec"
    /\ ~Compiles(code[t])
    /\ exc' = [exc EXCEPT ![t] = SyntaxErr]
    /\ pc' = [pc EXCEPT ![t] = "exit"]
    /\ UNCHANGED <<code, ip, ctx, ctx0, buf, old, ret, wrote, sys_stdout,
                   console, figs, plotFile>>
    /\ UNCHANGED lifeVars

\* line 18: print(...) in the code
ExecPrint(t) ==
    /\ AtOp(t, "print")
    /\ CanWrite(sys_stdout)
    /\ Write(sys_stdout, <<"out", t>>)
    /\ ip' = [ip EXCEPT ![t] = @ + 1]
    /\ UNCHANGED <<pc, code, ctx, ctx0, old, exc, ret, wrote, sys_stdout,
                   figs, plotFile>>
    /\ UNCHANGED lifeVars

\* line 18: result = ... / summary = ... in the code, stored in local_vars
ExecBind(t) ==
    /\ \/ /\ AtOp(t, "result")
          /\ ctx' = [ctx EXCEPT ![t] = Bind(@, "result", CodeResult)]
       \/ /\ AtOp(t, "summary")
          /\ ctx' = [ctx EXCEPT ![t] = Bind(@, "summary", CodeSummary)]
    /\ ip' = [ip EXCEPT ![t] = @ + 1]
    /\ UNCHANGED <<pc, code, ctx0, buf, old, exc, ret, wrote, sys_stdout,
                   console, figs, plotFile>>
    /\ UNCHANGED lifeVars

\* line 18: plt.figure() / a plotting call in the code
ExecFigure(t) ==
    /\ AtOp(t, "figure")
    /\ figs < MaxFigs
    /\ figs' = figs + 1
    /\ ip' = [ip EXCEPT ![t] = @ + 1]
    /\ UNCHANGED <<pc, code, ctx, ctx0, buf, old, exc, ret, wrote,
                   sys_stdout, console, plotFile>>
    /\ UNCHANGED lifeVars

\* line 18: the code raises; "raise" is an Exception, "exit" is SystemExit
ExecRaise(t) ==
    /\ \/ /\ AtOp(t, "raise")
          /\ exc' = [exc EXCEPT ![t] = RuntimeErr]
       \/ /\ AtOp(t, "exit")
          /\ exc' = [exc EXCEPT ![t] = SystemExitExc]
    /\ pc' = [pc EXCEPT ![t] = "exit"]
    /\ UNCHANGED <<code, ip, ctx, ctx0, buf, old, ret, wrote, sys_stdout,
                   console, figs, plotFile>>
    /\ UNCHANGED lifeVars

\* line 18: the code ran to its end
ExecDone(t) ==
    /\ pc[t] = "exec"
    /\ Compiles(code[t])
    /\ ip[t] > Len(code[t])
    /\ pc' = [pc EXCEPT ![t] = "exit"]
    /\ UNCHANGED <<code, ip, ctx, ctx0, buf, old, exc, ret, wrote,
                   sys_stdout, console, figs, plotFile>>
    /\ UNCHANGED lifeVars

\* where control goes when the with block is left
AfterWith(e) ==
    IF e.cls = "none" THEN "save"
    ELSE IF e.cls = "Exception" THEN "except" ELSE "raised"

\* the stream put back by a plain assignment after exec(), skipped on a raise
ExitUnlessRaised(t) ==
    /\ pc[t] = "exit"
    /\ sys_stdout' = IF exc[t] = NoExc THEN old[t] ELSE sys_stdout
    /\ pc' = [pc EXCEPT ![t] = AfterWith(exc[t])]
    /\ UNCHANGED <<code, ip, ctx, ctx0, buf, old, exc, ret, wrote, console,
                   figs, plotFile>>
    /\ UNCHANGED lifeVars

\* line 17, redirect_stdout.__exit__: put back the saved stream.  It runs
\* however the block is left; "except Exception" (line 29) then takes an
\* Exception and lets any other BaseException go to the caller
Exit(t) ==
    /\ pc[t] = "exit"
    /\ sys_stdout' = old[t]
    /\ pc' = [pc EXCEPT ![t] = AfterWith(exc[t])]
    /\ UNCHANGED <<code, ip, ctx, ctx0, buf, old, exc, ret, wrote, console,
                   figs, plotFile>>
    /\ UNCHANGED lifeVars

\* line 20: plt.get_fignums() is empty
SaveNone(t) ==
    /\ pc[t] = "save"
    /\ figs = 0
    /\ pc' = [pc EXCEPT ![t] = "extract"]
    /\ UNCHANGED <<code, ip, ctx, ctx0, buf, old, exc, ret, wrote,
                   sys_stdout, console, figs, plotFile>>
    /\ UNCHANGED lifeVars

\* plt.close() with no argument closes the current figure only
FigsAfterClose(n) == n - 1

\* lines 20-23: savefig writes the current figure, close() closes it
SaveOk(t) ==
    /\ pc[t] = "save"
    /\ figs > 0
    /\ plotFile' = TRUE
    /\ wrote' = [wrote EXCEPT ![t] = TRUE]
    /\ figs' = FigsAfterClose(figs)
    /\ pc' = [pc EXCEPT ![t] = "extract"]
    /\ UNCHANGED <<code, ip, ctx, ctx0, buf, old, exc, ret, sys_stdout,
                   console>>
    /\ UNCHANGED lifeVars

\* line 22: savefig raises (no data/ directory, no permission); inside the try
SaveFails(t) ==
    /\ pc[t] = "save"
    /\ figs > 0
    /\ exc' = [exc EXCEPT ![t] = SaveErr]
    /\ pc' = [pc EXCEPT ![t] = "except"]
    /\ UNCHANGED <<code, ip, ctx, ctx0, buf, old, ret, wrote, sys_stdout,
                   console, figs, plotFile>>
    /\ UNCHANGED lifeVars

\* result taken from the captured text whether or not the code bound it
OutcomeStdoutOnly(c, b) == <<Text(b), Get(c, "summary", NoSummary)>>

\* lines 25-26
Outcome(c, b) == <<Get(c, "result", Text(b)), Get(c, "summary", NoSummary)>>

\* lines 25-27
Extract(t) ==
    /\ pc[t] = "extract"
    /\ ret' = [ret EXCEPT ![t] = Outcome(ctx[t], buf[t])]
    /\ pc' = [pc EXCEPT ![t] = "returned"]
    /\ UNCHANGED <<code, ip, ctx, ctx0, buf, old, exc, wrote, sys_stdout,
                   console, figs, plotFile>>
    /\ UNCHANGED lifeVars

\* line 31
ErrorOutcome(e) == <<ErrorOccurred, e.msg>>

\* lines 29-31: the error notice is printed, the error pair returned
Except(t) ==
    /\ pc[t] = "except"
    /\ CanWrite(sys_stdout)
    /\ Write(sys_stdout, <<"err", t>>)
    /\ ret' = [ret EXCEPT ![t] = ErrorOutcome(exc[t])]
    /\ pc' = [pc EXCEPT ![t] = "returned"]
    /\ UNCHANGED <<code, ip, ctx, ctx0, old, exc, wrote, sys_stdout, figs,
                   plotFile>>
    /\ UNCHANGED lifeVars

\* The caller drops the call's frame, context and buffer.  A reference to
\* the dropped buffer that is still installed becomes a stale stream, and
\* the console is observed per call: the dropped call's lines leave it.
Discard(t) ==
    /\ pc[t] \in {"returned", "raised"}
    /\ pc' = [pc EXCEPT ![t] = "idle"]
    /\ code' = [code EXCEPT ![t] = <<>>]
    /\ ip' = [ip EXCEPT ![t] = 1]
    /\ ctx' = [ctx EXCEPT ![t] = EmptyCtx]
    /\ ctx0' = [ctx0 EXCEPT ![t] = EmptyCtx]
    /\ buf' = [buf EXCEPT ![t] = <<>>]
    /\ exc' = [exc EXCEPT ![t] = NoExc]
    /\ ret' = [ret EXCEPT ![t] = <<None, None>>]
    /\ wrote' = [wrote EXCEPT ![t] = FALSE]
    /\ old' = [u \in Threads |->
                 IF u = t THEN Orig
                 ELSE IF old[u] = Buf(t) THEN Stale ELSE old[u]]
    /\ sys_stdout' = IF sys_stdout = Buf(t) THEN Stale ELSE sys_stdout
    /\ console' = {i \in console : i[2] # t}
    /\ UNCHANGED <<figs, plotFile>>
    /\ UNCHANGED lifeVars

Step(t) ==
    \/ NoticeColumns(t)
    \/ NoticeRaises(t)
    \/ Enter(t)
    \/ ExecSyntaxError(t)
    \/ ExecPrint(t)
    \/ ExecBind(t)
    \/ ExecFigure(t)
    \/ ExecRaise(t)
    \/ ExecDone(t)
    \/ Exit(t)
    \/ SaveNone(t)
    \/ SaveOk(t)
    \/ SaveFails(t)
    \/ Extract(t)
    \/ Except(t)
    \/ Discard(t)

\* calls made one after the other: a call starts when no other is in flight
SeqCall(t) ==
    /\ \A u \in Threads : pc[u] = "idle"
    /\ \E c \in CodesUpTo(MaxCodeLen), x \in Contexts : Call(t, c, x)

\* calls made from several threads at once
ConcCall(t) ==
    /\ pc[t] = "idle"
    /\ \E c \in CodesUpTo(MaxConcLen), x \in ConcContexts : Call(t, c, x)

Next == \E t \in Threads : SeqCall(t) \/ Step(t)
Spec == Init /\ [][Next]_vars

NextConc == \E t \in Threads : ConcCall(t) \/ Step(t)
SpecConc == Init /\ [][NextConc]_vars


(***************************************************************************)
(* lifespan                                                                *)
(***************************************************************************)
MaxAttempts == 20
InitDelay == 1000
MaxDelay == 5000

\* line 29: min(delay * 1.6, 5.0), in milliseconds
NextDelay(d) == IF (d * 16) \div 10 < MaxDelay THEN (d * 16) \div 10 ELSE MaxDelay

\* lines 17-18
LifespanStart ==
    /\ lpc = "start"
    /\ attempts' = 0
    /\ delay' = InitDelay
    /\ lpc' = "loop"
    /\ UNCHANGED <<tries, ready, disposed>>
    /\ UNCHANGED execVars

\* lines 19-21: the loop condition holds, engine.begin() is entered
LoopTry ==
    /\ lpc = "loop"
    /\ attempts < MaxAttempts
    /\ tries' = tries + 1
    /\ lpc' = "begin"
    /\ UNCHANGED <<attempts, delay, ready, disposed>>
    /\ UNCHANGED execVars

\* lines 30-32: the loop condition fails, the else branch runs
LoopElse ==
    /\ lpc = "loop"
    /\ ~(attempts < MaxAttempts)
    /\ lpc' = "yield"
    /\ UNCHANGED <<attempts, delay, tries, ready, disposed>>
    /\ UNCHANGED execVars

\* the break of line 24 left out
AttemptOkNoBreak ==
    /\ lpc = "begin"
    /\ ready' = TRUE
    /\ lpc' = "loop"
    /\ UNCHANGED <<attempts, delay, tries, disposed>>
    /\ UNCHANGED execVars

\* lines 21-24: create_all went through, break
AttemptOk ==
    /\ lpc = "begin"
    /\ ready' = TRUE
    /\ lpc' = "yield"
    /\ UNCHANGED <<attempts, delay, tries, disposed>>
    /\ UNCHANGED execVars

\* lines 25-27: OperationalError
AttemptOperationalError ==
    /\ lpc = "begin"
    /\ attempts' = attempts + 1
    /\ lpc' = "sleep"
    /\ UNCHANGED <<delay, tries, ready, disposed>>
    /\ UNCHANGED execVars

\* lines 21-25: an exception that is no OperationalError leaves the generator
AttemptOtherError ==
    /\ lpc = "begin"
    /\ lpc' = "crashed"
    /\ UNCHANGED <<attempts, delay, tries, ready, disposed>>
    /\ UNCHANGED execVars

\* lines 28-29
Backoff ==
    /\ lpc = "sleep"
    /\ delay' = NextDelay(delay)
    /\ lpc' = "loop"
    /\ UNCHANGED <<attempts, tries, ready, disposed>>
    /\ UNCHANGED execVars

\* line 34
Yield ==
    /\ lpc = "yield"
    /\ lpc' = "serving"
    /\ UNCHANGED <<attempts, delay, tries, ready, disposed>>
    /\ UNCHANGED execVars

\* lines 35-38: the generator is resumed at shutdown
Shutdown ==
    /\ lpc = "serving"
    /\ disposed' = disposed + 1
    /\ lpc' = "done"
    /\ UNCHANGED <<attempts, delay, tries, ready>>
    /\ UNCHANGED execVars

Startup ==
    \/ LifespanStart
    \/ LoopTry
    \/ LoopElse
    \/ AttemptOk
    \/ AttemptOperationalError
    \/ AttemptOtherError
    \/ Backoff
    \/ Yield

NextLife == Startup \/ Shutdown
\* the event loop keeps running the startup coroutine: every await in it
\* (engine.begin, run_sync, sleep) completes one way or another
SpecLife == Init /\ [][NextLife]_vars /\ WF_vars(Startup)


(***************************************************************************)
(* Properties                                                              *)
(***************************************************************************)
RECURSIVE Repeat(_, _)
Repeat(n, x) == IF n = 0 THEN <<>> ELSE Append(Repeat(n - 1, x), x)

Ended(t) == pc[t] \in {"returned", "raised"}
\* the caller passed a context with the key df
DfGiven(t) == "df" \in DOMAIN ctx0[t]
\* the call got as far as exec(): df was there and had columns
Ran(t) == DfGiven(t) /\ ctx0[t]["df"] = DataFrame
RaiseAt(c) == {i \in 1..Len(c) : c[i] \in {"raise", "exit"}}
CodeRaises(c) == ~Compiles(c) \/ RaiseAt(c) # {}
\* the exception running c ends with
RaisedBy(c) ==
    IF ~Compiles(c) THEN SyntaxErr
    ELSE LET i == CHOOSE j \in RaiseAt(c) : \A k \in RaiseAt(c) : j <= k
         IN IF c[i] = "raise" THEN RuntimeErr ELSE SystemExitExc
\* what the code of call t writes to standard output when it runs to its end
NPrints(c) == Cardinality({i \in 1..Len(c) : c[i] = "print"})
OwnOutput(t) == Repeat(NPrints(code[t]), <<"out", t>>)
MakesFigure(c) == \E i \in 1..Len(c) : c[i] = "figure"

\* C1: a call whose context has no 'df' returns ("No DataFrame provided",
\* "Missing df") at once: its code is never run, the capture scope is never
\* opened, the context is unchanged and data/plot.png is not written,
\* whatever figures are pending.
C1_Returned(t) ==
    (pc[t] # "idle" /\ ~DfGiven(t)) =>
        /\ pc[t] = "returned"
        /\ ret[t] = <<NoDataFrame, MissingDf>>
        /\ ctx[t] = ctx0[t]
        /\ ip[t] = 1
        /\ buf[t] = <<>>
        /\ exc[t] = NoExc
        /\ ~wrote[t]
C1_CallStep(t) ==
    (pc[t] = "idle" /\ pc'[t] # "idle" /\ "df" \notin DOMAIN ctx0'[t]) =>
        /\ pc'[t] = "returned"
        /\ sys_stdout' = sys_stdout
        /\ console' = console
        /\ figs' = figs
        /\ plotFile' = plotFile
C1_MissingDf ==
    /\ [](\A t \in Threads : C1_Returned(t))
    /\ [][\A t \in Threads : C1_CallStep(t)]_vars
C1_Witness ==
    \E t \in Threads :
        /\ pc[t] = "returned"
        /\ ~DfGiven(t)
        /\ Len(code[t]) > 0
        /\ DOMAIN ctx0[t] # {}
        /\ figs > 0

\* C2: when the context has 'df' and the code, once run, raises any
\* exception e, the call returns
\* ("Error occurred during code execution.", str(e)).
C2_ErrorPair ==
    \A t \in Threads :
        (Ended(t) /\ Ran(t) /\ CodeRaises(code[t])) =>
            /\ pc[t] = "returned"
            /\ ret[t] = <<ErrorOccurred, RaisedBy(code[t]).msg>>

\* C3: run_generated_code never raises outward, for any code and context.
C3_NeverRaises == \A t \in Threads : pc[t] # "raised"

\* C4 as stated: whenever the code runs without raising, the call returns
\* (context's result or else exactly the text the code printed, context's
\* summary or else "No summary provided.").
ExpectedOutcome(t) ==
    <<Get(ctx[t], "result", Text(OwnOutput(t))),
      Get(ctx[t], "summary", NoSummary)>>
C4_AsStated ==
    \A t \in Threads :
        (Ended(t) /\ Ran(t) /\ ~CodeRaises(code[t])) =>
            /\ pc[t] = "returned"
            /\ ret[t] = ExpectedOutcome(t)

\* C4 amended: the same, for the calls whose figure-save step does not raise
\* either; when the code ran without raising and savefig raised, the call
\* returns the error pair with str of savefig's exception.
C4_Outcome ==
    \A t \in Threads :
        (Ended(t) /\ Ran(t) /\ ~CodeRaises(code[t])) =>
            /\ pc[t] = "returned"
            /\ exc[t] = NoExc => ret[t] = ExpectedOutcome(t)
            /\ exc[t] # NoExc => /\ exc[t] = SaveErr
                                 /\ ret[t] = <<ErrorOccurred, SaveErr.msg>>
C4_Witness ==
    \E t \in Threads :
        /\ pc[t] = "returned"
        /\ Ran(t)
        /\ exc[t] = NoExc
        /\ "result" \notin DOMAIN ctx[t]
        /\ "summary" \in DOMAIN ctx[t] /\ "summary" \notin DOMAIN ctx0[t]
        /\ ret[t][1] = Text(<<<<"out", t>>>>)

\* C5: in calls made one after the other, the capture scope is open exactly
\* while the code runs and is released on every way out of it: from the
\* release on, sys.stdout is the original stream again, so the figure save,
\* the result extraction, the error notice and the return all come after the
\* release; a call that runs its code goes idle -> capturing -> outcome.
Capturing(t) == pc[t] \in {"exec", "exit"}
C5_Released ==
    /\ \A t \in Threads : Capturing(t) => sys_stdout = Buf(t) /\ old[t] = Orig
    /\ (\A t \in Threads : ~Capturing(t)) => sys_stdout = Orig
    /\ \A t \in Threads :
           /\ \A i \in 1..Len(buf[t]) : buf[t][i] = <<"out", t>>
           /\ (pc[t] = "returned" /\ exc[t] # NoExc) => <<"err", t>> \in console
Edges ==
    {<<"idle", "notice">>, <<"idle", "returned">>, <<"notice", "enter">>,
     <<"notice", "raised">>, <<"enter", "exec">>, <<"exec", "exit">>,
     <<"exit", "save">>, <<"exit", "except">>, <<"exit", "raised">>,
     <<"save", "extract">>, <<"save", "except">>, <<"extract", "returned">>,
     <<"except", "returned">>, <<"returned", "idle">>, <<"raised", "idle">>}
C5_CaptureScope ==
    /\ []C5_Released
    /\ [][\A t \in Threads : pc'[t] # pc[t] => <<pc[t], pc'[t]>> \in Edges]_vars
C5_Witness ==
    \E t \in Threads :
        /\ pc[t] = "returned"
        /\ exc[t] = RuntimeErr
        /\ Len(buf[t]) > 0
        /\ sys_stdout = Orig

\* the half of C6 about the capture buffer: a call's captured text is the
\* text its own code wrote, nothing of an earlier call is in it
NoLeak ==
    \A t \in Threads :
        (pc[t] \in {"save", "extract", "returned"} /\ Ran(t)
         /\ ~CodeRaises(code[t])) => buf[t] = OwnOutput(t)

\* C6: across calls made one after the other nothing leaks from one call's
\* capture into the next one's result, and a call with failing code always
\* returns the fixed first element "Error occurred during code execution.".
C6_NoLeakSameError ==
    /\ NoLeak
    /\ \A t \in Threads :
           (Ended(t) /\ Ran(t) /\ CodeRaises(code[t])) =>
               /\ pc[t] = "returned"
               /\ ret[t][1] = ErrorOccurred

\* C7: a call whose code creates no figure and does not raise leaves
\* data/plot.png unwritten, whatever calls came before it.
C7_NoResave ==
    \A t \in Threads :
        (pc[t] = "returned" /\ Ran(t) /\ ~CodeRaises(code[t])
         /\ ~MakesFigure(code[t])) => ~wrote[t]

\* C8: with overlapping invocations each call's captured text is exactly the
\* text its own code wrote to standard output.
C8_Reentrant ==
    \A t \in Threads :
        (pc[t] = "returned" /\ Ran(t) /\ ~CodeRaises(code[t])) =>
            buf[t] = OwnOutput(t)

\* C9: once all overlapping invocations have returned, sys.stdout is the
\* original stream again.
C9_StdoutRestored ==
    (\A t \in Threads : pc[t] \in {"idle", "returned"}) =>
        sys_stdout = Orig

\* C10 as stated: the startup phase always ends with the API started.
C10_AlwaysStarts == lpc # "crashed"

\* C10 amended: the startup phase always terminates, and the API starts
\* unless an attempt raised something other than OperationalError (which
\* leaves lifespan before the yield); 20 OperationalErrors make exactly 20
\* attempts and then the yield; after a success no further attempt is made
\* and the yield follows; shutdown disposes the engine exactly once.
C10_Inv ==
    /\ attempts <= MaxAttempts
    /\ tries <= MaxAttempts
    /\ lpc \in {"yield", "serving", "done"} =>
           \/ ready /\ tries = attempts + 1
           \/ ~ready /\ attempts = MaxAttempts /\ tries = MaxAttempts
    /\ ready => lpc \in {"yield", "serving", "done"}
    /\ lpc = "crashed" => ~ready /\ tries = attempts + 1 /\ disposed = 0
    /\ disposed = IF lpc = "done" THEN 1 ELSE 0
C10_Lifespan ==
    /\ []C10_Inv
    /\ [][ready => tries' = tries]_vars
    /\ [][lpc = "crashed" => lpc' = "crashed"]_vars
    /\ <>(lpc \in {"serving", "crashed"})
C10_Witness == lpc = "done" /\ ~ready /\ tries = MaxAttempts /\ delay = MaxDelay

====
